---- MODULE Spec2Model ----
(***************************************************************************)
(* State-machine model of the PlanLlama client (src/unnamed/part_003):     *)
(*   - the client life cycle: start(), the connect / client_ready /        *)
(*     disconnect listeners, stop(), and publish() / schedule();           *)
(*   - the worker engine: the work_request listener with its deadline      *)
(*     timer, and the handler registry filled by work();                   *)
(*   - the correlator: request() and its per-job once-listeners;           *)
(*   - the workflow run driver: cycleCheck, getNextSteps, runSteps,        *)
(*     runStep over the fetched step-result table.                         *)
(* Each part has its own specification over the shared variables.          *)
(***************************************************************************)
EXTENDS Naturals, Integers, Sequences, FiniteSets, TLC

\* ------------------------------------------------------------------------
\* Bounds
\* ------------------------------------------------------------------------
\* number of work items the server pushes
NumItems == 1
\* number of request() calls
NumReqs == 2
\* number of per-job notifications the server may emit over the whole run
MaxNotes == 2
\* longest dependency list of a step
MaxDeps == 2

\* job.expireInSeconds ||= 900
DefaultExpire == 900

Items == 1..NumItems

\* names given to work(), and names of pushed jobs ("ghost" is never registered)
WorkNames == {"job", "task"}
PushNames == WorkNames \cup {"ghost"}
Handlers == {"h1", "h2"}

\* values a handler resolves with
Results == {"r1", "r2"}
\* values a handler throws or rejects with: an Error object or any other value
Thrown == { [isError |-> TRUE, message |-> "boom", str |-> "Error: boom"],
            [isError |-> FALSE, message |-> "", str |-> "string error"] }
\* job.expireInSeconds as pushed (0: unset)
Expires == {0, 1}

VARIABLES
  \* ---- client
  isStarted,     \* this.isStarted
  socket,        \* this.socket: "null" | "open"
  reconnecting,  \* this.reconnecting
  conn,          \* the connection of the socket: "none" | "connecting" |
                 \* "connected" (connect delivered) | "ready" (client_ready
                 \* delivered) | "down" (disconnect delivered, the socket retries)
  wired,         \* the socket has the listeners of setupEventHandlers
  epoch,         \* connect events delivered so far
  startState,    \* the promise of the last start() call: "" (no call) |
                 \* "pending" | "resolved" | "rejected"
  startTimer,    \* the connectionTimeout of the last start() call is pending
  lastStop,      \* the stop() call made last since the last start() call:
                 \* "" (none) | "noop" | "disconnected"
  discs,         \* socket.disconnect() calls of stop() since the last start()
  jobHandlers,   \* this.jobHandlers: Map in insertion order,
                 \* <<[name, handler, options]>> (options "": none)
  registered,    \* register_worker messages sent so far: <<[jobName, options]>>
  latest,        \* per name: the handler of the last work() call that stored one
  workError,     \* the error the most recent work() call threw ("": none)
  pub,           \* publish() / schedule() calls: <<[op, msg, ack, settles]>>
  wfDef,         \* outcome of the workflow() call: "" (not called) | "ok" | error
  \* ---- worker engine, per work item
  wstate,        \* "idle" | "nohandler" | "threw" | "running" | "settled"
  wjob,          \* the pushed job: [name, expireInSeconds, handler]
  isCancelled,   \* the listener's local isCancelled
  timerArmed,    \* the setTimeout is pending (set, neither fired nor cleared)
  sent,          \* per item: everything the listener emitted, in order
  \* ---- correlator, per request() call
  rstate,        \* "idle" | "sent" | "listening" | "nolisten" | "done"
  listeners,     \* once-listeners on the socket: {[event, job, req]}
  settles,       \* per call: the resolve()/reject() calls made, in order
  rjob,          \* per call: the job id of its acknowledgement (0: none)
  notes,         \* per call: notifications of its job id delivered since it listens
  noteCount,     \* notifications emitted by the server so far
  early,         \* per call: the first notification delivered between its send_job
                 \* and the run of its acknowledgement callback, <<>> when none
                 \* (kept after the callback when it is for the call's job id)
  \* ---- workflow run driver
  steps,         \* the Steps object: <<[name, isFn, deps]>> in declaration order
  stored,        \* the server's stored step results of the workflow job (names)
  runs,          \* work items pushed for the workflow job so far
  wfpc,          \* "idle" | "fetching" | "running" | "returned" | "failed" |
                 \* "crashed" (the process ended on an unhandled rejection)
  wfFetch,       \* how fetch_step_results was answered in this run ("": not yet)
  wfError,       \* message of the error the run driver rejected with
  mapEntries,    \* stepResults: entries of the Map built from the fetched table
  props,         \* stepResults: own properties set by runStep, name -> result
  nextSteps,     \* closure variable nextSteps
  pendingSteps,  \* closure variable pendingSteps (its keys, in insertion order)
  inflight,      \* steps whose request() of this run is pending
  rejectedSteps, \* steps whose request() of this run rejected
  wflog,         \* channel messages of this run, in order
  storing,       \* steps whose store_step_result acknowledgement is pending
  wfCancelled    \* isCancelled of the work item that runs the workflow: its
                 \* deadline timer has fired and reported the failure

lifeVars == <<isStarted, socket, reconnecting, conn, wired, epoch, startState,
              startTimer, lastStop, discs>>
clientVars == <<lifeVars, jobHandlers, registered, latest, workError, pub, wfDef>>
workerVars == <<wstate, wjob, isCancelled, timerArmed, sent>>
requestVars == <<rstate, listeners, settles, rjob, notes, noteCount, early>>
workflowVars == <<steps, stored, runs, wfpc, wfFetch, wfError, mapEntries, props,
                  nextSteps, pendingSteps, inflight, rejectedSteps, wflog, storing,
                  wfCancelled>>
vars == <<clientVars, workerVars, requestVars, workflowVars>>

\* ------------------------------------------------------------------------
\* Helpers
\* ------------------------------------------------------------------------
Range(s) == { s[k] : k \in 1..Len(s) }

\* error instanceof Error ? error.message : String(error)
ErrorText(e) == IF e.isError THEN e.message ELSE e.str

Msg(m, a) == [msg |-> m, arg |-> a]

\* this.jobHandlers.get(name): "" when absent
HandlerIndex(name) ==
  IF \E k \in 1..Len(jobHandlers) : jobHandlers[k].name = name
  THEN CHOOSE k \in 1..Len(jobHandlers) : jobHandlers[k].name = name
  ELSE 0

\* mutant: Map.set does not replace the entry of an existing key
MapSet_KeepsFirst(m, name, h, o) ==
  IF \E k \in 1..Len(m) : m[k].name = name
  THEN m
  ELSE Append(m, [name |-> name, handler |-> h, options |-> o])

\* this.jobHandlers.set(name, info): a Map keeps the position of an existing key
MapSet(m, name, h, o) ==
  IF \E k \in 1..Len(m) : m[k].name = name
  THEN [k \in 1..Len(m) |-> IF m[k].name = name
                            THEN [name |-> name, handler |-> h, options |-> o]
                            ELSE m[k]]
  ELSE Append(m, [name |-> name, handler |-> h, options |-> o])

\* ------------------------------------------------------------------------
\* Client: life cycle
\* ------------------------------------------------------------------------
\* connect events delivered over the life of the client
MaxConnects == 2

NotStartedText == "PlanLlama not started. Call start() first."
InvalidResponseText == "Invalid response from server"
HandlerRequiredText == "Handler function is required"

Resolve(v) == [kind |-> "resolve", value |-> v]
Reject(v) == [kind |-> "reject", value |-> v]

\* the payload of a register_worker message
RegisterWorker(name, o) == [jobName |-> name, options |-> o]

\* the fields of a client whose start() has resolved
InitClient ==
  /\ isStarted = TRUE
  /\ socket = "open"
  /\ reconnecting = TRUE
  /\ conn = "ready"
  /\ wired = TRUE
  /\ epoch = 1
  /\ startState = "resolved"
  /\ startTimer = FALSE
  /\ lastStop = ""
  /\ discs = 0
  /\ jobHandlers = <<>>
  /\ registered = <<>>
  /\ latest = [n \in WorkNames |-> ""]
  /\ workError = ""
  /\ pub = <<>>
  /\ wfDef = ""

\* the fields of a client just constructed
InitFresh ==
  /\ isStarted = FALSE
  /\ socket = "null"
  /\ reconnecting = FALSE
  /\ conn = "none"
  /\ wired = FALSE
  /\ epoch = 0
  /\ startState = ""
  /\ startTimer = FALSE
  /\ lastStop = ""
  /\ discs = 0
  /\ jobHandlers = <<>>
  /\ registered = <<>>
  /\ latest = [n \in WorkNames |-> ""]
  /\ workError = ""
  /\ pub = <<>>
  /\ wfDef = ""

\* mutant: the guard looks at the socket only
NotStarted_SocketOnly == socket = "null"

\* !this.isStarted || !this.socket
NotStarted == ~isStarted \/ socket = "null"

\* what settling does to the promise of start(): only a pending promise settles
Settled(state, how) == IF state = "pending" THEN how ELSE state

\* start() on a client without a socket (start() returns at once when isStarted
\* is set; it is not called while a socket exists): read package.json, then
\* arm the connection timeout and create the socket. readOk: the read succeeds
Start(readOk) ==
  /\ ~isStarted
  /\ socket = "null"
  /\ epoch < MaxConnects
  /\ lastStop' = ""
  /\ discs' = 0
  /\ IF readOk
     THEN /\ startState' = "pending"
          /\ startTimer' = TRUE
          /\ socket' = "open"
          /\ conn' = "connecting"
          /\ wired' = FALSE
     ELSE /\ startState' = "rejected"
          /\ UNCHANGED <<startTimer, socket, conn, wired>>
  /\ UNCHANGED <<isStarted, reconnecting, epoch, jobHandlers, registered, latest,
                 workError, pub, wfDef, workerVars, requestVars, workflowVars>>

\* socket.on("connect"), on the first connection and on every reconnection:
\* clear the connection timeout, set isStarted
Connect ==
  /\ socket = "open"
  /\ conn \in {"connecting", "down"}
  /\ epoch < MaxConnects
  /\ epoch' = epoch + 1
  /\ startTimer' = FALSE
  /\ isStarted' = TRUE
  /\ conn' = "connected"
  /\ UNCHANGED <<socket, reconnecting, wired, startState, lastStop, discs,
                 jobHandlers, registered, latest, workError, pub, wfDef,
                 workerVars, requestVars, workflowVars>>

\* socket.on("connect_error"): clear the connection timeout and reject; the
\* socket goes on trying
ConnectError ==
  /\ socket = "open"
  /\ conn \in {"connecting", "down"}
  /\ startTimer' = FALSE
  /\ startState' = Settled(startState, "rejected")
  /\ UNCHANGED <<isStarted, socket, reconnecting, conn, wired, epoch, lastStop,
                 discs, jobHandlers, registered, latest, workError, pub, wfDef,
                 workerVars, requestVars, workflowVars>>

\* the connectionTimeout callback: reject(new Error("Connection timeout"))
StartTimeout ==
  /\ startTimer
  /\ startTimer' = FALSE
  /\ startState' = Settled(startState, "rejected")
  /\ UNCHANGED <<isStarted, socket, reconnecting, conn, wired, epoch, lastStop,
                 discs, jobHandlers, registered, latest, workError, pub, wfDef,
                 workerVars, requestVars, workflowVars>>

\* mutant: the handlers are registered again in reverse order
ReRegister_Reversed(m) ==
  [k \in 1..Len(m) |-> RegisterWorker(m[Len(m) + 1 - k].name, m[Len(m) + 1 - k].options)]

\* the register_worker messages of the loop over this.jobHandlers
ReRegister(m) == [k \in 1..Len(m) |-> RegisterWorker(m[k].name, m[k].options)]

\* socket.on("client_ready"): register every handler again when reconnecting is
\* set, else setupEventHandlers(); then set reconnecting and resolve()
ClientReady ==
  /\ socket = "open"
  /\ conn = "connected"
  /\ conn' = "ready"
  /\ IF reconnecting
     THEN /\ registered' = registered \o ReRegister(jobHandlers)
          /\ UNCHANGED wired
     ELSE /\ wired' = TRUE
          /\ UNCHANGED registered
  /\ reconnecting' = TRUE
  /\ startState' = Settled(startState, "resolved")
  /\ UNCHANGED <<isStarted, socket, epoch, startTimer, lastStop, discs, jobHandlers,
                 latest, workError, pub, wfDef, workerVars, requestVars,
                 workflowVars>>

\* socket.on("disconnect")
Disconnect ==
  /\ socket = "open"
  /\ conn \in {"connected", "ready"}
  /\ isStarted' = FALSE
  /\ conn' = "down"
  /\ UNCHANGED <<socket, reconnecting, wired, epoch, startState, startTimer,
                 lastStop, discs, jobHandlers, registered, latest, workError, pub,
                 wfDef, workerVars, requestVars, workflowVars>>

\* mutant: stop() without its check
StopIsNoop_Never == FALSE

\* stop(): !this.isStarted || !this.socket
StopIsNoop == ~isStarted \/ socket = "null"

\* stop(): return at once unless started with a socket; else disconnect the
\* socket, clear isStarted and drop the socket
Stop ==
  /\ IF StopIsNoop
     THEN /\ lastStop' = "noop"
          /\ UNCHANGED <<isStarted, socket, conn, wired, discs>>
     ELSE /\ lastStop' = "disconnected"
          /\ discs' = discs + 1
          /\ isStarted' = FALSE
          /\ socket' = "null"
          /\ conn' = "none"
          /\ wired' = FALSE
  /\ UNCHANGED <<reconnecting, epoch, startState, startTimer, jobHandlers,
                 registered, latest, workError, pub, wfDef, workerVars,
                 requestVars, workflowVars>>

\* ------------------------------------------------------------------------
\* Client: work() (the handler registry)
\* ------------------------------------------------------------------------
\* register_worker messages after which work() is not called any more
MaxRegs == 2

\* the options objects given to work()
WorkOptions == {"o1"}

\* mutant: a call without a handler falls back to a default handler
FinalHandler_Default(a2, a3) ==
  IF a2 \in Handlers THEN a2 ELSE IF a3 = "" THEN "h1" ELSE a3

\* finalHandler for work(name, a2, a3): a2 when it is a function, else a3
\* ("": no third argument)
FinalHandler(a2, a3) == IF a2 \in Handlers THEN a2 ELSE a3

\* finalOptions ("": undefined)
FinalOptions(a2, a3) == IF a2 \in Handlers THEN "" ELSE a2

\* work(name, optionsOrHandler, handler): the not-started check, the choice of
\* handler and options, the store, then emit register_worker
Work(name, a2, a3) ==
  /\ Len(registered) < MaxRegs
  /\ IF NotStarted
     THEN /\ workError' = NotStartedText
          /\ UNCHANGED <<jobHandlers, registered, latest>>
     ELSE IF FinalHandler(a2, a3) = ""
     THEN /\ workError' = HandlerRequiredText
          /\ UNCHANGED <<jobHandlers, registered, latest>>
     ELSE /\ workError' = ""
          /\ jobHandlers' = MapSet(jobHandlers, name, FinalHandler(a2, a3),
                                   FinalOptions(a2, a3))
          /\ registered' = Append(registered, RegisterWorker(name, FinalOptions(a2, a3)))
          /\ latest' = [latest EXCEPT ![name] = FinalHandler(a2, a3)]
  /\ UNCHANGED <<lifeVars, pub, wfDef, workerVars, requestVars, workflowVars>>

\* ------------------------------------------------------------------------
\* Client: publish() and schedule()
\* ------------------------------------------------------------------------
\* number of publish() / schedule() calls
MaxPubs == 2

DispatchOps == {"publish", "schedule"}

\* acknowledgements of the server: jobId 0 and error "" stand for an absent field
NoAck == [status |-> "", jobId |-> 0, error |-> ""]
AckShapes ==
  { [status |-> "error", jobId |-> 0, error |-> "queue full"],
    [status |-> "ok", jobId |-> 1, error |-> ""],
    [status |-> "ok", jobId |-> 0, error |-> ""],
    [status |-> "other", jobId |-> 1, error |-> ""] }

\* the message publish() / schedule() emits
DispatchMsg(op) == IF op = "publish" THEN "send_job" ELSE "schedule_job"

\* mutant: status "ok" resolves also without a job id
AckSettle_OkAlways(op, a) ==
  IF a.status = "error" THEN Reject(a.error)
  ELSE IF a.status = "ok" THEN Resolve(a.jobId)
  ELSE Reject(InvalidResponseText)

\* the acknowledgement callback of publish() (resolve with the job id) and of
\* schedule() (resolve with nothing, written 0)
AckSettle(op, a) ==
  IF a.status = "error" THEN Reject(a.error)
  ELSE IF op = "publish" /\ a.status = "ok" /\ a.jobId # 0 THEN Resolve(a.jobId)
  ELSE IF op = "schedule" /\ a.status = "ok" THEN Resolve(0)
  ELSE Reject(InvalidResponseText)

\* publish() / schedule(): the not-started check, then emit with a callback
Publish(op) ==
  /\ Len(pub) < MaxPubs
  /\ pub' = Append(pub,
       IF NotStarted
       THEN [op |-> op, msg |-> <<>>, ack |-> NoAck,
             settles |-> << Reject(NotStartedText) >>]
       ELSE [op |-> op, msg |-> << DispatchMsg(op) >>, ack |-> NoAck,
             settles |-> <<>>])
  /\ UNCHANGED <<lifeVars, jobHandlers, registered, latest, workError, wfDef,
                 workerVars, requestVars, workflowVars>>

\* the server acknowledges the message of call k (a callback runs at most once)
PublishAck(k, a) ==
  /\ k \in 1..Len(pub)
  /\ pub[k].msg # <<>>
  /\ pub[k].ack = NoAck
  /\ conn \in {"connected", "ready"}
  /\ pub' = [pub EXCEPT ![k].ack = a,
                        ![k].settles = Append(@, AckSettle(pub[k].op, a))]
  /\ UNCHANGED <<lifeVars, jobHandlers, registered, latest, workError, wfDef,
                 workerVars, requestVars, workflowVars>>

\* ------------------------------------------------------------------------
\* Worker engine: the work_request listener
\* ------------------------------------------------------------------------
InitWorker ==
  /\ wstate = [i \in Items |-> "idle"]
  /\ wjob = [i \in Items |-> [name |-> "", expireInSeconds |-> 0, handler |-> ""]]
  /\ isCancelled = [i \in Items |-> FALSE]
  /\ timerArmed = [i \in Items |-> FALSE]
  /\ sent = [i \in Items |-> <<>>]

\* job.expireInSeconds ||= 900
EffectiveExpire(exp) == IF exp = 0 THEN DefaultExpire ELSE exp

TimedOutText(job) ==
  "Job '" \o job.name \o "' timed out after " \o ToString(job.expireInSeconds) \o "s"

\* mutant: the no-handler error does not name the job
NoHandlerText_NoName(name) == "No handler registered for job"

NoHandlerText(name) == "No handler registered for job: " \o name

\* mutant: the "active" event is not emitted
OnStart_NoActive(job) == << Msg("job_started", job.name) >>

\* the start of the try block: emit job_started, then the "active" event
OnStart(job) == << Msg("job_started", job.name), Msg("ev_active", job.name) >>

\* handlerInfo.handler(job) is called (a trace mark, nothing is sent)
Invoke(job) == << Msg("invoke", job.handler) >>

\* mutant: the timeout callback forgets the delivery acknowledgement
TimeoutReport_NoAck(job) ==
  << Msg("ev_failed", "Job timed out") >>

\* the body of the setTimeout callback
TimeoutReport(job) ==
  << Msg("ack_error", TimedOutText(job)), Msg("ev_failed", "Job timed out") >>

\* mutant: the .catch callback without the delivery acknowledgement
OnRejected_NoAck(cancelled, job, e) ==
  IF cancelled THEN <<>>
  ELSE << Msg("ev_failed", ErrorText(e)) >>

\* mutant: the .then callback without the isCancelled guard
OnFulfilled_NoGuard(cancelled, job, r, completedThrows) ==
  << Msg("job_completed", r), Msg("ev_completed", r) >> \o
  (IF completedThrows
   THEN << Msg("ack_error", "listener error"), Msg("ev_failed", "listener error") >>
   ELSE << Msg("ack_ok", r) >>)

\* the .then callback: what it emits for a handler result r; completedThrows says
\* whether a consumer's "completed" listener throws, which skips the ok
\* acknowledgement and runs the .catch callback with that error
OnFulfilled(cancelled, job, r, completedThrows) ==
  IF cancelled THEN <<>>
  ELSE << Msg("job_completed", r), Msg("ev_completed", r) >> \o
       (IF completedThrows
        THEN << Msg("ack_error", "listener error"), Msg("ev_failed", "listener error") >>
        ELSE << Msg("ack_ok", r) >>)

\* the .catch callback for a rejection with e
OnRejected(cancelled, job, e) ==
  IF cancelled THEN <<>>
  ELSE << Msg("ack_error", ErrorText(e)), Msg("ev_failed", ErrorText(e)) >>

\* the catch block around the synchronous part of the listener
OnSyncThrow(job, e) ==
  << Msg("job_failed", ErrorText(e)), Msg("ev_failed", ErrorText(e)) >>

\* whether the timer is still pending after the catch block ran (the catch block
\* has no clearTimeout)
TimerAfterSyncThrow == TRUE

\* socket.on("work_request"): the synchronous part of the listener.
\* how: "promise" the handler returns a pending promise, "throws" it throws
\* before returning one, "activeThrows" a consumer's "active" listener throws
WorkRequest(i, name, exp, how, e) ==
  /\ wired
  /\ conn \in {"connected", "ready"}
  /\ wstate[i] = "idle"
  /\ \A j \in Items : j < i => wstate[j] # "idle"
  /\ LET k == HandlerIndex(name)
         job == [name |-> name, expireInSeconds |-> EffectiveExpire(exp),
                 handler |-> IF k = 0 THEN "" ELSE jobHandlers[k].handler]
         started == OnStart(job)
     IN IF k = 0
        THEN /\ wstate' = [wstate EXCEPT ![i] = "nohandler"]
             /\ wjob' = [wjob EXCEPT ![i] = [job EXCEPT !.expireInSeconds = exp]]
             /\ sent' = [sent EXCEPT ![i] = << Msg("job_failed", NoHandlerText(name)) >>]
             /\ UNCHANGED timerArmed
        ELSE /\ wjob' = [wjob EXCEPT ![i] =
                           IF how = "activeThrows"
                           THEN [job EXCEPT !.expireInSeconds = exp] ELSE job]
             /\ CASE how = "activeThrows" ->
                       /\ wstate' = [wstate EXCEPT ![i] = "threw"]
                       /\ sent' = [sent EXCEPT ![i] = started \o OnSyncThrow(job, e)]
                       /\ UNCHANGED timerArmed
                  [] how = "throws" ->
                       /\ wstate' = [wstate EXCEPT ![i] = "threw"]
                       /\ sent' = [sent EXCEPT ![i] =
                                     started \o Invoke(job) \o OnSyncThrow(job, e)]
                       /\ timerArmed' = [timerArmed EXCEPT ![i] = TimerAfterSyncThrow]
                  [] OTHER ->
                       /\ wstate' = [wstate EXCEPT ![i] = "running"]
                       /\ sent' = [sent EXCEPT ![i] = started \o Invoke(job)]
                       /\ timerArmed' = [timerArmed EXCEPT ![i] = TRUE]
  /\ UNCHANGED <<isCancelled, clientVars, requestVars, workflowVars>>

\* the deadline timer fires
TimerFires(i) ==
  /\ timerArmed[i]
  /\ timerArmed' = [timerArmed EXCEPT ![i] = FALSE]
  /\ isCancelled' = [isCancelled EXCEPT ![i] = TRUE]
  /\ sent' = [sent EXCEPT ![i] = @ \o TimeoutReport(wjob[i])]
  /\ UNCHANGED <<wstate, wjob, clientVars, requestVars, workflowVars>>

\* the handler's promise is fulfilled with r: the .then callback runs, and the
\* .catch callback after it when the "completed" listener threw
HandlerResolves(i, r, completedThrows) ==
  /\ wstate[i] = "running"
  /\ wstate' = [wstate EXCEPT ![i] = "settled"]
  /\ timerArmed' = [timerArmed EXCEPT ![i] = IF isCancelled[i] THEN @ ELSE FALSE]
  /\ sent' = [sent EXCEPT ![i] =
                @ \o OnFulfilled(isCancelled[i], wjob[i], r, completedThrows)]
  /\ UNCHANGED <<wjob, isCancelled, clientVars, requestVars, workflowVars>>

\* the handler's promise is rejected with e: the .catch callback runs
HandlerRejects(i, e) ==
  /\ wstate[i] = "running"
  /\ wstate' = [wstate EXCEPT ![i] = "settled"]
  /\ timerArmed' = [timerArmed EXCEPT ![i] = IF isCancelled[i] THEN @ ELSE FALSE]
  /\ sent' = [sent EXCEPT ![i] = @ \o OnRejected(isCancelled[i], wjob[i], e)]
  /\ UNCHANGED <<wjob, isCancelled, clientVars, requestVars, workflowVars>>

\* ------------------------------------------------------------------------
\* Idle values of the parts a specification does not exercise
\* ------------------------------------------------------------------------
Reqs == 1..NumReqs

InitRequest ==
  /\ rstate = [r \in Reqs |-> "idle"]
  /\ listeners = {}
  /\ settles = [r \in Reqs |-> <<>>]
  /\ rjob = [r \in Reqs |-> 0]
  /\ notes = [r \in Reqs |-> <<>>]
  /\ noteCount = 0
  /\ early = [r \in Reqs |-> <<>>]

NoWorkflow ==
  /\ steps = <<>>
  /\ stored = {}
  /\ runs = 0
  /\ wfpc = "idle"
  /\ wfFetch = ""
  /\ wfError = ""
  /\ mapEntries = {}
  /\ props = <<>>
  /\ nextSteps = <<>>
  /\ pendingSteps = <<>>
  /\ inflight = {}
  /\ rejectedSteps = {}
  /\ wflog = <<>>
  /\ storing = {}
  /\ wfCancelled = FALSE

\* ------------------------------------------------------------------------
\* Specification of the worker engine
\* ------------------------------------------------------------------------
InitWorkerSpec == InitClient /\ InitWorker /\ InitRequest /\ NoWorkflow

NextWorker ==
  \/ \E name \in WorkNames, h \in Handlers : Work(name, h, "")
  \/ \E i \in Items, name \in PushNames, exp \in Expires,
        how \in {"promise", "throws", "activeThrows"}, e \in Thrown :
       WorkRequest(i, name, exp, how, e)
  \/ \E i \in Items : TimerFires(i)
  \/ \E i \in Items, r \in Results, completedThrows \in BOOLEAN :
       HandlerResolves(i, r, completedThrows)
  \/ \E i \in Items, e \in Thrown : HandlerRejects(i, e)

SpecWorker == InitWorkerSpec /\ [][NextWorker]_vars

\* a pending setTimeout fires unless it is cleared
SpecWorkerLive == SpecWorker /\ \A i \in Items : WF_vars(TimerFires(i))

Spec == SpecWorker

\* ------------------------------------------------------------------------
\* Claims about the worker engine
\* ------------------------------------------------------------------------
\* positions in sent[i] of delivery acknowledgements and of job_failed messages
Acks(i) == { k \in 1..Len(sent[i]) : sent[i][k].msg \in {"ack_ok", "ack_error"} }
JobFailedMsgs(i) == { k \in 1..Len(sent[i]) : sent[i][k].msg = "job_failed" }
OutcomeReports(i) == Acks(i) \cup JobFailedMsgs(i)
Has(i, m) == \E k \in 1..Len(sent[i]) : sent[i][k] = m
HasMsg(i, name) == \E k \in 1..Len(sent[i]) : sent[i][k].msg = name

\* the item was pushed for a registered name
Started(i) == wstate[i] \in {"running", "threw", "settled"}

\* the deadline timer of the item has fired and reported
DeadlineReported(i) ==
  /\ isCancelled[i]
  /\ Has(i, Msg("ack_error", TimedOutText(wjob[i])))
  /\ Has(i, Msg("ev_failed", "Job timed out"))

\* C1: a work item pushed to a registered handler gets at most one outcome
\* report (delivery acknowledgements and job_failed messages counted), and
\* never both a success and a failure report, whatever the interleaving of the
\* handler's settlement or synchronous throw with the deadline timer.
C1_AtMostOneOutcome ==
  \A i \in Items :
    Started(i) =>
      /\ Cardinality(OutcomeReports(i)) <= 1
      /\ ~(HasMsg(i, "ack_ok") /\ (HasMsg(i, "ack_error") \/ HasMsg(i, "job_failed")))

\* C8: once the deadline timer has fired and reported, the handler's later
\* resolution or rejection emits nothing more for that work item.
C8_NoReportAfterDeadline ==
  [][\A i \in Items : DeadlineReported(i) => sent'[i] = sent[i]]_vars

\* the handler settled after the deadline report
C8_Witness ==
  \E i \in Items : DeadlineReported(i) /\ wstate[i] = "settled"

\* C9: every work item pushed for a registered name eventually has an outcome
\* report, and while its handler stays unsettled the deadline timer eventually
\* fires and reports the deadline failure (error acknowledgement and "failed"
\* event with reason "Job timed out").
C9_EventuallyReported ==
  \A i \in Items :
    /\ Started(i) ~> (OutcomeReports(i) # {})
    /\ (wstate[i] = "running") ~> (wstate[i] = "settled" \/ DeadlineReported(i))

\* the handler is still pending and the deadline failure was reported
C9_Witness ==
  \E i \in Items : wstate[i] = "running" /\ DeadlineReported(i)

\* positions in sent[i] of the calls of the handler
Invocations(i) == { k \in 1..Len(sent[i]) : sent[i][k].msg = "invoke" }

\* C16: a work item pushed for a name without a registered handler yields
\* exactly one message, job_failed with "No handler registered for job:
\* <name>": no job_started, no "active" event, no handler call, no timer; and
\* nothing is added later, even when a handler is registered afterwards.
C16_NoHandlerFailsAtOnce ==
  \A i \in Items :
    wstate[i] = "nohandler" =>
      /\ sent[i] = << [msg |-> "job_failed",
                       arg |-> "No handler registered for job: " \o wjob[i].name] >>
      /\ ~timerArmed[i]

\* an item pushed for a name that was registered only afterwards
C16_Witness ==
  \E i \in Items : wstate[i] = "nohandler" /\ HandlerIndex(wjob[i].name) # 0

\* C17: for a work item pushed for a registered name, job_started (with the
\* job's name) and then the "active" event are the first two things emitted,
\* before the handler is called and before any outcome report.
C17_StartedBeforeHandler ==
  \A i \in Items :
    Started(i) =>
      /\ Len(sent[i]) >= 2
      /\ sent[i][1] = [msg |-> "job_started", arg |-> wjob[i].name]
      /\ sent[i][2] = [msg |-> "ev_active", arg |-> wjob[i].name]
      /\ \A k \in Invocations(i) \cup OutcomeReports(i) : k > 2

\* an item whose handler was called and that has an outcome report
C17_Witness ==
  \E i \in Items : Invocations(i) # {} /\ OutcomeReports(i) # {}

\* the messages of item i after the call of its handler
AfterInvoke(i) ==
  SubSeq(sent[i], (CHOOSE k \in Invocations(i) : TRUE) + 1, Len(sent[i]))

\* C18: when the handler resolved before the deadline timer fired (its
\* job_completed was sent), the timer is cancelled and what the client did
\* after calling the handler is, in order: job_completed with the result, the
\* "completed" event, the delivery acknowledgement "ok" with the result.
C18_SuccessReportOrder ==
  \A i \in Items :
    HasMsg(i, "job_completed") =>
      /\ ~timerArmed[i]
      /\ ~isCancelled[i]
      /\ \E r \in Results :
           AfterInvoke(i) = << [msg |-> "job_completed", arg |-> r],
                               [msg |-> "ev_completed", arg |-> r],
                               [msg |-> "ack_ok", arg |-> r] >>

\* the handler of item i settled before the timer fired, and not by resolving
RejectedInTime(i) ==
  wstate[i] = "settled" /\ ~isCancelled[i] /\ ~HasMsg(i, "job_completed")

C20_NoFailureAfterCompleted ==
  \A i \in Items :
    HasMsg(i, "job_completed") =>
      ~(HasMsg(i, "ack_error") \/ HasMsg(i, "job_failed") \/ HasMsg(i, "ev_failed"))

\* the handler of the item was called and failed before the deadline, and an
\* outcome was reported for it: job_failed after a synchronous throw, or the
\* error acknowledgement of the .catch callback
HandlerFailureReported(i) ==
  /\ Invocations(i) # {}
  /\ ~isCancelled[i]
  /\ HasMsg(i, "job_failed") \/ HasMsg(i, "ack_error")

\* C33: once an outcome has been reported for a work item because its handler
\* failed, by rejecting or by throwing synchronously, the deadline timer of the
\* item is not armed any more.
C33_TimerDisarmedAfterFailure ==
  \A i \in Items : HandlerFailureReported(i) => ~timerArmed[i]

\* ------------------------------------------------------------------------
\* Correlator: request()
\* ------------------------------------------------------------------------
\* job ids the server assigns
JobIds == 1..NumReqs
\* the error field of a job_failed_<id> payload ("": absent)
FailedErrors == {"", "E1"}
\* the error field of an error acknowledgement
ServerErrors == {"queue full"}

Listener(ev, j, r) == [event |-> ev, job |-> j, req |-> r]

\* new Error(data.error || "Job failed")
JobFailedError(err) == IF err = "" THEN "Job failed" ELSE err

\* request(): the not-started check, then emit send_job with options.await
Request(r) ==
  /\ rstate[r] = "idle"
  /\ \A q \in Reqs : q < r => rstate[q] # "idle"
  /\ IF NotStarted
     THEN /\ rstate' = [rstate EXCEPT ![r] = "done"]
          /\ settles' = [settles EXCEPT ![r] = Append(@, Reject(NotStartedText))]
     ELSE /\ rstate' = [rstate EXCEPT ![r] = "sent"]
          /\ UNCHANGED settles
  /\ UNCHANGED <<listeners, rjob, notes, noteCount, early, clientVars, workerVars,
                 workflowVars>>

\* the acknowledgement callback of send_job
\* status "error": reject; "ok" with a job id: register both once-listeners;
\* anything else: reject with "Invalid response from server"
RequestAck(r, status, j, err) ==
  /\ rstate[r] = "sent"
  /\ CASE status = "error" ->
            /\ rstate' = [rstate EXCEPT ![r] = "done"]
            /\ settles' = [settles EXCEPT ![r] = Append(@, Reject(err))]
            /\ UNCHANGED <<listeners, rjob>>
       [] status = "ok" /\ j # 0 ->
            /\ rstate' = [rstate EXCEPT ![r] = "listening"]
            /\ rjob' = [rjob EXCEPT ![r] = j]
            /\ listeners' = listeners \cup
                 {Listener("job_completed", j, r), Listener("job_failed", j, r)}
            /\ UNCHANGED settles
       [] OTHER ->
            /\ rstate' = [rstate EXCEPT ![r] = "done"]
            /\ settles' = [settles EXCEPT ![r] = Append(@, Reject(InvalidResponseText))]
            /\ UNCHANGED <<listeners, rjob>>
  /\ early' = [early EXCEPT ![r] =
                 IF status = "ok" /\ j # 0 THEN SelectSeq(@, LAMBDA n : n.job = j)
                 ELSE <<>>]
  /\ UNCHANGED <<notes, noteCount, clientVars, workerVars, workflowVars>>

\* mutant: jobSuccess / jobFailed leave the complementary listener registered
Deregistered_KeepsOther(ev, j, r) ==
  { Listener(ev, j, r) }

\* the listeners gone once the once-listener ev of call r has run: itself (once)
\* and the complementary one (removeListener in jobSuccess / jobFailed)
Deregistered(ev, j, r) ==
  { Listener("job_completed", j, r), Listener("job_failed", j, r) }

\* what the listener of event ev passes to resolve / reject
Settlement(ev, data) ==
  IF ev = "job_completed" THEN Resolve(data) ELSE Reject(JobFailedError(data))

\* the server emits job_completed_<j> or job_failed_<j>: every listener of that
\* event runs once
Notify(ev, j, data) ==
  /\ noteCount < MaxNotes
  /\ noteCount' = noteCount + 1
  /\ LET fired == { l \in listeners : l.event = ev /\ l.job = j }
         calls == { l.req : l \in fired }
     IN /\ listeners' = listeners \ UNION { Deregistered(ev, j, r) : r \in calls }
        /\ settles' = [r \in Reqs |->
                         IF r \in calls THEN Append(settles[r], Settlement(ev, data))
                         ELSE settles[r]]
        /\ rstate' = [r \in Reqs |-> IF r \in calls THEN "done" ELSE rstate[r]]
        /\ notes' = [r \in Reqs |->
                       IF rjob[r] = j THEN Append(notes[r], [event |-> ev, data |-> data])
                       ELSE notes[r]]
        /\ early' = [r \in Reqs |->
                       IF rstate[r] = "sent" /\ early[r] = <<>>
                       THEN << [event |-> ev, job |-> j, data |-> data] >>
                       ELSE early[r]]
  /\ UNCHANGED <<rjob, clientVars, workerVars, workflowVars>>

InitRequestSpec == InitClient /\ InitWorker /\ InitRequest /\ NoWorkflow

NextRequest ==
  \/ \E r \in Reqs : Request(r)
  \/ \E r \in Reqs, status \in {"ok", "error", "other"}, j \in JobIds \cup {0},
        err \in ServerErrors : RequestAck(r, status, j, err)
  \/ \E j \in JobIds, data \in Results : Notify("job_completed", j, data)
  \/ \E j \in JobIds, data \in FailedErrors : Notify("job_failed", j, data)

SpecRequest == InitRequestSpec /\ [][NextRequest]_vars

\* C10: a request() call acknowledged with a job id makes at most one
\* resolve/reject call: none before a notification of its job id is delivered,
\* and then exactly the one of the first notification delivered to it (resolve
\* with the carried result for completed, reject with the carried message or
\* "Job failed" for failed); later notifications add or change nothing.
C10_SettlesOnceByFirst ==
  \A r \in Reqs :
    rjob[r] # 0 =>
      IF notes[r] = <<>> THEN settles[r] = <<>>
      ELSE LET n == notes[r][1]
           IN settles[r] =
                << IF n.event = "job_completed"
                   THEN [kind |-> "resolve", value |-> n.data]
                   ELSE [kind |-> "reject",
                         value |-> IF n.data = "" THEN "Job failed" ELSE n.data] >>

\* a call that settled on its first notification and was sent the opposite
\* notification afterwards
C10_Witness ==
  \E r \in Reqs :
    /\ Len(notes[r]) >= 2
    /\ notes[r][1].event # notes[r][2].event
    /\ Len(settles[r]) = 1

\* the call settled through a per-job notification
SettledByNote(r) == rjob[r] # 0 /\ settles[r] # <<>>

\* C11: once a request() call has settled through a per-job notification,
\* neither its job_completed_<id> nor its job_failed_<id> listener is
\* registered any more, and no later notification makes it settle again.
C11_NoListenerAfterSettle ==
  /\ [](\A r \in Reqs :
          SettledByNote(r) => \A l \in listeners : l.req # r)
  /\ [][\A r \in Reqs : SettledByNote(r) => settles'[r] = settles[r]]_vars

\* a call rejected by job_failed_<id> to which job_completed_<id> was delivered
\* afterwards
C11_Witness ==
  \E r \in Reqs :
    /\ Len(notes[r]) >= 2
    /\ notes[r][1].event = "job_failed"
    /\ notes[r][2].event = "job_completed"
    /\ settles[r] = << Reject(JobFailedError(notes[r][1].data)) >>
    /\ \A l \in listeners : l.req # r

\* C12: no notification of a call's job is missed: once the acknowledgement
\* callback has run, a notification of the call's job id that was delivered
\* before the callback ran has settled the call with its outcome.
C12_NoMissedNotification ==
  \A r \in Reqs :
    (rjob[r] # 0 /\ early[r] # <<>>) =>
      settles[r] = << Settlement(early[r][1].event, early[r][1].data) >>

\* ------------------------------------------------------------------------
\* Workflow: step graphs
\* ------------------------------------------------------------------------
WfName == "wf"
\* `${name}/${stepName}`
StepJob(n) == WfName \o "/" \o n

\* step names; "keys" and "size" are also names of Map.prototype
StepNames == {"A", "B", "keys", "size"}
\* a dependency name no workflow declares
Undeclared == "X"
\* the order in which the steps of a graph are declared
NameOrder == <<"A", "B", "C", "D", "keys", "size", "X">>

SeqOf(S) == SelectSeq(NameOrder, LAMBDA n : n \in S)

FnStep(n) == [name |-> n, isFn |-> TRUE, deps |-> <<>>]
ArrStep(n, deps) == [name |-> n, isFn |-> FALSE, deps |-> deps]

\* dependency lists of at most MaxDeps distinct names
DepLists(D) ==
  { SeqOf(S) : S \in { T \in SUBSET (D \cup {Undeclared}) : Cardinality(T) <= MaxDeps } }

\* every graph over up to three of the StepNames: a step without dependencies is
\* a plain function, a step with dependencies an array ending with its function
SmallGraphs ==
  UNION { { [k \in 1..Cardinality(D) |->
              IF f[SeqOf(D)[k]] = <<>> THEN FnStep(SeqOf(D)[k])
              ELSE ArrStep(SeqOf(D)[k], f[SeqOf(D)[k]])]
            : f \in [D -> DepLists(D)] }
          : D \in (SUBSET StepNames) \ {StepNames} }

Chain == << FnStep("A"), ArrStep("B", <<"A">>), ArrStep("C", <<"B">>) >>
Diamond == << FnStep("A"), ArrStep("B", <<"A">>), ArrStep("C", <<"A">>),
              ArrStep("D", <<"B", "C">>) >>
\* an array step without dependencies, and a repeated dependency
Oddities == << ArrStep("A", <<>>), ArrStep("B", <<"A", "A">>) >>

\* a dependency that no step declares but Object.prototype does
ProtoDep == << ArrStep("A", <<"toString">>) >>

Graphs == SmallGraphs \cup {Chain, Diamond, Oddities, ProtoDep}

AllStepNames == UNION { { g[k].name : k \in 1..Len(g) } : g \in Graphs }

NamesOf(g) == { g[k].name : k \in 1..Len(g) }
NameSeq(g) == [k \in 1..Len(g) |-> g[k].name]
StepOf(g, n) == g[CHOOSE k \in 1..Len(g) : g[k].name = n]
DepsOf(g, n) == StepOf(g, n).deps

\* ------------------------------------------------------------------------
\* Workflow: cycleCheck
\* ------------------------------------------------------------------------
UndefinedStepText(n, d) == "Step '" \o n \o "' depends on undefined step '" \o d \o "'"
RecursiveText == "workflow() cannot execute steps due to a recursive dependency"

\* inDegree[stepName] = dependencies.length (0 for a function step)
InDegree(g) == [n \in NamesOf(g) |-> Len(DepsOf(g, n))]

RECURSIVE Occurrences(_, _)
Occurrences(deps, d) ==
  IF deps = <<>> THEN 0
  ELSE (IF Head(deps) = d THEN 1 ELSE 0) + Occurrences(Tail(deps), d)

\* mutant: a step is added to dependents[d] once, however often it lists d
RECURSIVE Dependents_Once(_, _, _)
Dependents_Once(g, d, k) ==
  IF k > Len(g) THEN <<>>
  ELSE (IF Occurrences(g[k].deps, d) > 0 THEN << g[k].name >> ELSE <<>>)
       \o Dependents_Once(g, d, k + 1)

\* dependents[d]: the steps that list d, in declaration order, once per mention
RECURSIVE Dependents(_, _, _)
Dependents(g, d, k) ==
  IF k > Len(g) THEN <<>>
  ELSE [j \in 1..Occurrences(g[k].deps, d) |-> g[k].name] \o Dependents(g, d, k + 1)

\* steps and dependents are plain objects: steps[dep] and dependents[dep] also
\* find the properties of Object.prototype, which are truthy and have no push
ObjectProtoNames == {"constructor", "hasOwnProperty", "isPrototypeOf",
                     "propertyIsEnumerable", "toLocaleString", "toString",
                     "valueOf", "__proto__"}
PushTypeErrorText == "dependents[dep].push is not a function"

\* !steps[dep]
StepMissing(g, dep) == dep \notin NamesOf(g) /\ dep \notin ObjectProtoNames

\* the error thrown by the loop that builds the maps, at the first dependency
\* that makes it throw ("" when it completes): the undefined-step error when
\* steps[dep] is falsy, a TypeError when dependents[dep] is not an array
RECURSIVE FirstUndefined(_, _, _)
FirstUndefined(g, k, j) ==
  IF k > Len(g) THEN ""
  ELSE IF j > Len(g[k].deps) THEN FirstUndefined(g, k + 1, 1)
  ELSE IF StepMissing(g, g[k].deps[j])
       THEN UndefinedStepText(g[k].name, g[k].deps[j])
  ELSE IF g[k].deps[j] \notin NamesOf(g) THEN PushTypeErrorText
  ELSE FirstUndefined(g, k, j + 1)

\* for (const dependent of dependents[currentStep]): decrement, push when zero
RECURSIVE Decrement(_, _, _)
Decrement(deg, ds, pushed) ==
  IF ds = <<>> THEN [deg |-> deg, pushed |-> pushed]
  ELSE LET d == Head(ds)
           deg2 == [deg EXCEPT ![d] = @ - 1]
       IN Decrement(deg2, Tail(ds), IF deg2[d] = 0 THEN Append(pushed, d) ELSE pushed)

\* the while loop of Kahn's algorithm: the number of steps processed
RECURSIVE Kahn(_, _, _, _)
Kahn(g, queue, deg, processedCount) ==
  IF queue = <<>> THEN processedCount
  ELSE LET r == Decrement(deg, Dependents(g, Head(queue), 1), <<>>)
       IN Kahn(g, Tail(queue) \o r.pushed, r.deg, processedCount + 1)

\* mutant: the graph is not checked at all
CycleCheck_Skipped(g) == ""

\* mutant: the processed count is not compared with the number of steps
CycleCheck_NoCount(g) ==
  FirstUndefined(g, 1, 1)

\* cycleCheck(): the message of the error it throws ("" when it returns)
CycleCheck(g) ==
  LET undef == FirstUndefined(g, 1, 1)
      deg == InDegree(g)
      queue == SelectSeq(NameSeq(g), LAMBDA n : deg[n] = 0)
  IN IF undef # "" THEN undef
     ELSE IF Kahn(g, queue, deg, 0) # Len(g) THEN RecursiveText
     ELSE ""

\* ------------------------------------------------------------------------
\* Workflow: the run driver
\* ------------------------------------------------------------------------
\* number of work items pushed for the workflow job (the first run and retries)
MaxRuns == 2

\* stepResults is the Map built by fetchCurrentStepResults, and runStep stores
\* results on it as properties. String-keyed properties of Map.prototype:
MapProtoNames == {"constructor", "get", "set", "has", "delete", "clear",
                  "entries", "forEach", "keys", "size", "values"}
\* of these, the accessors without a setter (assigning to them throws)
MapProtoGetters == {"size"}

SetterTypeErrorText(n) ==
  "Cannot set property " \o n \o " of #<Map> which has only a getter"

\* stepResults.has(stepName)
MapHas(entries, n) == n \in entries

\* dep in stepResults
InTable(entries, table, d) ==
  d \in DOMAIN table \/ d \in MapProtoNames \/ d \in ObjectProtoNames

\* mutant: the assignment drops the results stored before
SetProp_Only(table, n, v) == [m \in {n} |-> v]

\* stepResults[stepName] = result
SetProp(table, n, v) == [m \in DOMAIN table \cup {n} |-> IF m = n THEN v ELSE table[m]]

\* mutant: getNextSteps without the stepResults.has(stepName) test
GetNextSteps_NoSkip(g, cand, entries, table) ==
  LET met(n) == StepOf(g, n).isFn
                  \/ \A d \in Range(DepsOf(g, n)) : InTable(entries, table, d)
  IN [next |-> SelectSeq(cand, LAMBDA n : met(n)),
      pending |-> SelectSeq(cand, LAMBDA n : ~met(n))]

\* getNextSteps(_steps) over the steps named by cand: the new nextSteps and the
\* keys of the new pendingSteps
GetNextSteps(g, cand, entries, table) ==
  LET done(n) == MapHas(entries, n)
      met(n) == StepOf(g, n).isFn
                  \/ \A d \in Range(DepsOf(g, n)) : InTable(entries, table, d)
  IN [next |-> SelectSeq(cand, LAMBDA n : ~done(n) /\ met(n)),
      pending |-> SelectSeq(cand, LAMBDA n : ~done(n) /\ ~met(n))]

\* mutant: runSteps recomputes the frontier from all steps
Remaining_AllSteps(g, pending) == NameSeq(g)

\* the steps runSteps passes to getNextSteps after a frontier: pendingSteps
Remaining(g, pending) == pending

SendJob(n, table) == [msg |-> "send_job", step |-> n, data |-> table]
StoreStep(n, v) == [msg |-> "store_step_result", step |-> n, data |-> v]
FetchMsg == [msg |-> "fetch_step_results", step |-> "", data |-> ""]

\* mutant: runSteps does not wait for the whole frontier
FrontierSettled_Any(left) == TRUE

\* await Promise.all(stepPromises) is over: no request of the frontier is pending
FrontierSettled(left) == left = {}

\* mutant: only the first step of the frontier is dispatched before the wait
Dispatch_FirstOnly(ns, table) == << SendJob(ns[1], table) >>

\* nextSteps.map((s) => runStep(s)): one send_job per step, in order, each
\* carrying stepResults as serialized (its own properties)
Dispatch(ns, table) == [k \in 1..Len(ns) |-> SendJob(ns[k], table)]

\* runSteps() with freshly computed nextSteps / pendingSteps: return stepResults
\* when nextSteps is empty, else dispatch the frontier and wait for all of it.
\* log and left are the messages sent and the requests pending so far
RunSteps(ns, table, log, left) ==
  /\ nextSteps' = ns.next
  /\ pendingSteps' = ns.pending
  /\ IF ns.next = <<>>
     THEN /\ wfpc' = "returned"
          /\ wflog' = log
          /\ inflight' = left
          /\ UNCHANGED <<rejectedSteps, wfError>>
     ELSE IF ~isStarted
     THEN /\ wfpc' = "failed"
          /\ wfError' = NotStartedText
          /\ rejectedSteps' = rejectedSteps \cup Range(ns.next)
          /\ wflog' = log
          /\ inflight' = left
     ELSE /\ wfpc' = "running"
          /\ wflog' = log \o Dispatch(ns.next, table)
          /\ inflight' = left \cup Range(ns.next)
          /\ UNCHANGED <<rejectedSteps, wfError>>

InvalidStepText == "Invalid step definition"
StepNoFnText == "Step must be a function or an array ending with a function"

\* step values workflow() refuses: neither a function nor an array, and an
\* array whose last element is not a function
OtherStep(n) == [name |-> n, isFn |-> FALSE, deps |-> <<>>, shape |-> "other"]
ArrNoFn(n, deps) == [name |-> n, isFn |-> FALSE, deps |-> deps, shape |-> "array_no_fn"]

\* what typeof / Array.isArray / step[step.length - 1] see of a step value
StepShape(s) ==
  IF "shape" \in DOMAIN s THEN s.shape ELSE IF s.isFn THEN "function" ELSE "array"

\* mutant: no check of the step values
StepError_Lenient(s) == ""

\* the error the loop of workflow() throws for a step value ("": none)
StepError(s) ==
  IF StepShape(s) = "other" THEN InvalidStepText
  ELSE IF StepShape(s) = "array_no_fn" THEN StepNoFnText
  ELSE ""

\* the position of the first step value the loop refuses (0: none)
FirstInvalid(g) ==
  IF \E k \in 1..Len(g) : StepError(g[k]) # ""
  THEN CHOOSE k \in 1..Len(g) :
         StepError(g[k]) # "" /\ \A j \in 1..(k - 1) : StepError(g[j]) = ""
  ELSE 0

\* async (job) => func(job.data), for the function of step n
StepHandler(n) == "step " \o n \o " (job.data)"
\* the handler registered under the workflow's name
DriverHandler == "run driver"

\* mutant: the run driver is registered before the steps
WorkflowJobs_DriverFirst(g) ==
  IF FirstInvalid(g) = 0
  THEN << [name |-> WfName, handler |-> DriverHandler] >> \o
       [k \in 1..Len(g) |-> [name |-> StepJob(g[k].name), handler |-> StepHandler(g[k].name)]]
  ELSE [k \in 1..(FirstInvalid(g) - 1) |->
          [name |-> StepJob(g[k].name), handler |-> StepHandler(g[k].name)]]

\* the work() calls of workflow(), in order: one for every step before the first
\* refused one, and the run driver last when no step is refused
WorkflowJobs(g) ==
  IF FirstInvalid(g) = 0
  THEN [k \in 1..Len(g) |-> [name |-> StepJob(g[k].name), handler |-> StepHandler(g[k].name)]]
       \o << [name |-> WfName, handler |-> DriverHandler] >>
  ELSE [k \in 1..(FirstInvalid(g) - 1) |->
          [name |-> StepJob(g[k].name), handler |-> StepHandler(g[k].name)]]

\* workflow(name, steps): the not-started check, then for every step its check
\* and its handler, then the run driver
DefineWorkflow(g) ==
  /\ steps = <<>>
  /\ wfpc = "idle"
  /\ runs = 0
  /\ wfDef = ""
  /\ g # <<>>
  /\ IF NotStarted
     THEN /\ wfDef' = NotStartedText
          /\ UNCHANGED <<steps, jobHandlers, registered>>
     ELSE LET jobs == WorkflowJobs(g)
              RECURSIVE SetAll(_, _)
              SetAll(m, k) == IF k > Len(jobs) THEN m
                              ELSE SetAll(MapSet(m, jobs[k].name, jobs[k].handler, ""),
                                          k + 1)
          IN /\ jobHandlers' = SetAll(jobHandlers, 1)
             /\ registered' = registered \o
                  [k \in 1..Len(jobs) |-> RegisterWorker(jobs[k].name, "")]
             /\ wfDef' = IF FirstInvalid(g) = 0 THEN "ok" ELSE StepError(g[FirstInvalid(g)])
             /\ steps' = IF FirstInvalid(g) = 0 THEN g ELSE steps
  /\ UNCHANGED <<lifeVars, latest, workError, pub, stored, runs, wfpc, wfFetch,
                 wfError, mapEntries, props, nextSteps, pendingSteps, inflight,
                 rejectedSteps, wflog, storing, wfCancelled, workerVars,
                 requestVars>>

\* the server pushes a work item for the workflow's name (first, or again after
\* a failed run): the run driver starts with fetchCurrentStepResults(job.id)
RunDriver ==
  /\ steps # <<>>
  /\ runs < MaxRuns
  /\ wfpc = "idle" \/ (wfpc = "failed" /\ inflight = {})
  /\ runs' = runs + 1
  /\ mapEntries' = {}
  /\ props' = <<>>
  /\ nextSteps' = <<>>
  /\ pendingSteps' = <<>>
  /\ rejectedSteps' = {}
  /\ wfFetch' = ""
  /\ IF isStarted
     THEN /\ wfpc' = "fetching"
          /\ wfError' = ""
          /\ wflog' = << FetchMsg >>
     ELSE /\ wfpc' = "failed"
          /\ wfError' = NotStartedText
          /\ wflog' = <<>>
  /\ wfCancelled' = FALSE
  /\ UNCHANGED <<steps, stored, inflight, storing, clientVars, workerVars, requestVars>>

\* the acknowledgement of fetch_step_results; on "ok" with a table the driver
\* goes on with cycleCheck(), getNextSteps(steps) and runSteps()
FetchAck(status, err) ==
  /\ wfpc = "fetching"
  /\ wfFetch' = status
  /\ CASE status = "error" ->
            /\ wfpc' = "failed"
            /\ wfError' = err
            /\ UNCHANGED <<mapEntries, props, nextSteps, pendingSteps, inflight,
                           rejectedSteps, wflog>>
       [] status = "ok" ->
            /\ mapEntries' = stored
            /\ props' = <<>>
            /\ LET bad == CycleCheck(steps)
               IN IF bad # ""
                  THEN /\ wfpc' = "failed"
                       /\ wfError' = bad
                       /\ UNCHANGED <<nextSteps, pendingSteps, inflight,
                                      rejectedSteps, wflog>>
                  ELSE RunSteps(GetNextSteps(steps, NameSeq(steps), stored, <<>>),
                                <<>>, wflog, inflight)
       [] OTHER ->
            /\ wfpc' = "failed"
            /\ wfError' = InvalidResponseText
            /\ UNCHANGED <<mapEntries, props, nextSteps, pendingSteps, inflight,
                           rejectedSteps, wflog>>
  /\ UNCHANGED <<steps, stored, runs, storing, wfCancelled, clientVars, workerVars,
                 requestVars>>

\* the request() of step n resolves with v: runStep stores v on stepResults and
\* sends store_step_result; when it was the last of its frontier, Promise.all
\* resolves and runSteps goes on with getNextSteps(pendingSteps)
StepResolves(n, v) ==
  /\ n \in inflight
  /\ wfpc # "crashed"
  /\ IF n \in MapProtoGetters
     THEN \* the assignment throws: runStep rejects
          /\ inflight' = inflight \ {n}
          /\ IF wfpc = "running"
             THEN wfpc' = "failed" /\ wfError' = SetterTypeErrorText(n)
             ELSE UNCHANGED <<wfpc, wfError>>
          /\ UNCHANGED <<props, storing, wflog, nextSteps, pendingSteps, rejectedSteps>>
     ELSE LET table == SetProp(props, n, v)
              left == inflight \ {n}
              log == IF isStarted THEN Append(wflog, StoreStep(n, v)) ELSE wflog
          IN /\ props' = table
             /\ storing' = IF isStarted THEN storing \cup {n} ELSE storing
             /\ IF wfpc = "running" /\ FrontierSettled(left)
                THEN RunSteps(GetNextSteps(steps, Remaining(steps, pendingSteps),
                                           mapEntries, table),
                              table, log, left)
                ELSE /\ wflog' = log
                     /\ inflight' = left
                     /\ UNCHANGED <<wfpc, wfError, nextSteps, pendingSteps, rejectedSteps>>
  /\ UNCHANGED <<steps, stored, runs, wfFetch, mapEntries, wfCancelled, clientVars,
                 workerVars, requestVars>>

\* mutant: a rejected step request does not reject the run
StepRejects_RunGoesOn(n, err) ==
  /\ n \in inflight
  /\ wfpc # "crashed"
  /\ inflight' = inflight \ {n}
  /\ rejectedSteps' = rejectedSteps \cup {n}
  /\ UNCHANGED <<wfpc, wfError>>
  /\ UNCHANGED <<steps, stored, runs, wfFetch, mapEntries, props, nextSteps,
                 pendingSteps, wflog, storing, wfCancelled, clientVars, workerVars,
                 requestVars>>

\* the request() of step n rejects with err: runStep rejects, and so do
\* Promise.all, runSteps and the run driver unless they already have
StepRejects(n, err) ==
  /\ n \in inflight
  /\ wfpc # "crashed"
  /\ inflight' = inflight \ {n}
  /\ rejectedSteps' = rejectedSteps \cup {n}
  /\ IF wfpc = "running"
     THEN wfpc' = "failed" /\ wfError' = err
     ELSE UNCHANGED <<wfpc, wfError>>
  /\ UNCHANGED <<steps, stored, runs, wfFetch, mapEntries, props, nextSteps,
                 pendingSteps, wflog, storing, wfCancelled, clientVars, workerVars,
                 requestVars>>

\* the acknowledgement of a store_step_result message. "ok": the server has
\* stored the result. Anything else rejects the promise of storeStepResult,
\* which runStep neither awaits nor catches: an unhandled rejection, after which
\* the process either goes on (fatal = FALSE: a handler for it is installed, or
\* the runtime only warns) or is ended by the runtime (fatal = TRUE)
StoreAck(n, status, fatal) ==
  /\ n \in storing
  /\ wfpc # "crashed"
  /\ storing' = storing \ {n}
  /\ stored' = IF status = "ok" THEN stored \cup {n} ELSE stored
  /\ IF status # "ok" /\ fatal
     THEN wfpc' = "crashed"
     ELSE UNCHANGED wfpc
  /\ UNCHANGED <<steps, runs, wfFetch, wfError, mapEntries, props, nextSteps,
                 pendingSteps, inflight, rejectedSteps, wflog, wfCancelled,
                 clientVars, workerVars, requestVars>>

\* the deadline timer of the work item that runs the workflow fires while the
\* run driver's promise is pending: isCancelled is set and the failure is
\* reported by the acknowledgement and the "failed" event; the run driver is
\* not told
WfTimerFires ==
  /\ wfpc \in {"fetching", "running"}
  /\ ~wfCancelled
  /\ wfCancelled' = TRUE
  /\ UNCHANGED <<steps, stored, runs, wfpc, wfFetch, wfError, mapEntries, props,
                 nextSteps, pendingSteps, inflight, rejectedSteps, wflog, storing,
                 clientVars, workerVars, requestVars>>

\* values a step's request resolves with, errors it rejects with
StepValues == {"v1", "v2"}
StepErrors == {"step failed", "Job failed"}

InitWorkflowSpec == InitClient /\ InitWorker /\ InitRequest /\ NoWorkflow

NextWorkflow ==
  \/ steps = <<>> /\ \E g \in Graphs : DefineWorkflow(g)
  \/ RunDriver
  \/ \E status \in {"ok", "error", "other"}, err \in ServerErrors : FetchAck(status, err)
  \/ \E n \in AllStepNames, v \in StepValues : StepResolves(n, v)
  \/ \E n \in AllStepNames, err \in StepErrors : StepRejects(n, err)
  \/ \E n \in AllStepNames, status \in {"ok", "error"}, fatal \in BOOLEAN :
       StoreAck(n, status, fatal)

SpecWorkflow == InitWorkflowSpec /\ [][NextWorkflow]_vars

\* workflows whose runs have more than one frontier
DeadlineDefs == {Chain, Diamond}

\* runs of a workflow whose work item may reach its deadline
NextDeadline ==
  \/ steps = <<>> /\ \E g \in DeadlineDefs : DefineWorkflow(g)
  \/ RunDriver
  \/ \E status \in {"ok", "error", "other"}, err \in ServerErrors : FetchAck(status, err)
  \/ \E n \in AllStepNames, v \in StepValues : StepResolves(n, v)
  \/ \E n \in AllStepNames, err \in StepErrors : StepRejects(n, err)
  \/ \E n \in AllStepNames, status \in {"ok", "error"}, fatal \in BOOLEAN :
       StoreAck(n, status, fatal)
  \/ WfTimerFires

SpecDeadline == InitWorkflowSpec /\ [][NextDeadline]_vars

\* ------------------------------------------------------------------------
\* Claims about the workflow run driver
\* ------------------------------------------------------------------------
\* positions in wflog of the send_job messages of this run
AllSends == { k \in 1..Len(wflog) : wflog[k].msg = "send_job" }
Sends(n) == { k \in AllSends : wflog[k].step = n }

\* the graph has a cycle: some non-empty set of steps in which every step
\* depends on a step of the set
HasCycle(g) ==
  \E S \in (SUBSET NamesOf(g)) \ {{}} :
    \A n \in S : \E d \in Range(DepsOf(g, n)) : d \in S

AllDeclared(g) == \A n \in NamesOf(g) : Range(DepsOf(g, n)) \subseteq NamesOf(g)

\* names that have a result in stepResults, as Map entry or as property
TableNames == mapEntries \cup DOMAIN props

\* the run fetched the stored table and the graph passed validation
ValidRun == steps # <<>> /\ ~HasCycle(steps) /\ AllDeclared(steps) /\ wfFetch = "ok"

\* C2: in a fresh run (empty fetched table) of an acyclic graph with declared
\* dependencies in which no step dispatch rejects, every step is dispatched at
\* most once, the run does not fail and does not stop while steps are
\* missing, and when it returns every step was dispatched exactly once and
\* the returned table contains every step name.
C2_FreshRunCompletes ==
  (ValidRun /\ mapEntries = {} /\ rejectedSteps = {}) =>
    /\ \A n \in NamesOf(steps) : Cardinality(Sends(n)) <= 1
    /\ wfpc \in {"running", "returned"}
    /\ wfpc = "running" => inflight # {}
    /\ wfpc = "returned" =>
         \A n \in NamesOf(steps) : Cardinality(Sends(n)) = 1 /\ n \in TableNames

C4_DepsResolvedAtDispatch ==
  \A k \in AllSends :
    \A d \in Range(DepsOf(steps, wflog[k].step)) :
      d \in mapEntries \cup DOMAIN wflog[k].data

\* C5: within one run every step is dispatched at most once, and a step whose
\* result was obtained is neither in flight nor pending again.
C5_DispatchedAtMostOnce ==
  /\ \A n \in NamesOf(steps) : Cardinality(Sends(n)) <= 1
  /\ \A n \in DOMAIN props : n \notin inflight /\ n \notin Range(pendingSteps)

\* a second frontier was dispatched after a step's result was obtained
C5_Witness ==
  \E k \in AllSends : DOMAIN wflog[k].data # {}

\* C6: no step named in the fetched table is dispatched in the run.
C6_FetchedNotDispatched ==
  \A k \in AllSends : wflog[k].step \notin mapEntries

\* a run that fetched a non-empty table and dispatched a step
C6_Witness ==
  mapEntries # {} /\ AllSends # {} /\ NamesOf(steps) \ mapEntries # {}

\* C7: in a resumed run (non-empty fetched table) of a valid graph, a step
\* absent from the fetched table whose dependencies are all in it is
\* dispatched, and when the run returns the table names every step.
C7_ResumedRunCompletes ==
  (ValidRun /\ mapEntries # {}) =>
    /\ \A n \in NamesOf(steps) \ mapEntries :
         Range(DepsOf(steps, n)) \subseteq mapEntries => Sends(n) # {}
    /\ wfpc = "returned" => NamesOf(steps) \subseteq TableNames

\* C13: when a step request of a frontier rejects while the run is going on,
\* the run driver rejects with that step's error and sends nothing; a failed run
\* dispatches no further step; stored step results are never removed, and a
\* later run fetches them and dispatches none of the steps they name.
C13_StepFailureFailsRun ==
  /\ [][\A n \in AllStepNames, err \in StepErrors :
          (wfpc = "running" /\ StepRejects(n, err)) =>
            (wfpc' = "failed" /\ wfError' = err /\ wflog' = wflog)]_vars
  /\ [][(wfpc = "failed" /\ runs' = runs) =>
          (wfpc' \in {"failed", "crashed"} /\ wfError' = wfError /\ AllSends' = AllSends)]_vars
  /\ [][stored \subseteq stored']_vars
  /\ [][(wfpc = "fetching" /\ wfFetch' = "ok") => mapEntries' = stored]_vars
  /\ [](\A n \in mapEntries : Sends(n) = {})

\* a run that failed on a rejected step after another step's result was
\* stored, with the steps of the next frontier left undispatched
C13_Witness ==
  /\ wfpc = "failed"
  /\ wfError \in StepErrors
  /\ rejectedSteps # {}
  /\ stored \cap DOMAIN props # {}
  /\ pendingSteps # <<>>
  /\ inflight = {}

\* C14: a run (whose fetch of the stored results succeeded) of a workflow in
\* which a step declares a dependency that is not in the step map fails with
\* the error naming the dependent step and the missing dependency, and no step
\* is dispatched.
C14_UndefinedDependencyFails ==
  (steps # <<>> /\ ~AllDeclared(steps) /\ wfFetch = "ok") =>
    /\ AllSends = {}
    /\ wfpc = "failed"
    /\ \E n \in NamesOf(steps) :
         \E dep \in Range(DepsOf(steps, n)) \ NamesOf(steps) :
           wfError = "Step '" \o n \o "' depends on undefined step '" \o dep \o "'"

\* positions in wflog of the store_step_result messages of step n
Stores(n) == { k \in 1..Len(wflog) : wflog[k].msg = "store_step_result" /\ wflog[k].step = n }

\* C15: in a fresh run of the diamond graph, once A has resolved B and C are
\* both dispatched, one right after the other and before either result is
\* awaited, each with A's result in the table; they stay in flight until their
\* own request settles; D is dispatched only with the results of both B and C
\* in the table.
C15_DiamondFrontiers ==
  (steps = Diamond /\ wfFetch = "ok" /\ mapEntries = {}) =>
    /\ "A" \in DOMAIN props =>
         \E k \in Sends("B") : /\ k + 1 \in Sends("C")
                               /\ DOMAIN wflog[k].data = {"A"}
                               /\ DOMAIN wflog[k + 1].data = {"A"}
    /\ \A n \in {"B", "C"} :
         (Sends(n) # {} /\ n \notin DOMAIN props /\ n \notin rejectedSteps) => n \in inflight
    /\ \A k \in Sends("D") : {"B", "C"} \subseteq DOMAIN wflog[k].data
    /\ ({"B", "C"} \subseteq DOMAIN props /\ wfpc # "failed") => Sends("D") # {}

\* D was dispatched after C completed before B
C15_Witness ==
  /\ steps = Diamond
  /\ Sends("D") # {}
  /\ \E kc \in Stores("C"), kb \in Stores("B") : kc < kb

\* the request of step n was sent in this run and has resolved
SettledOk(n) == Sends(n) # {} /\ n \notin inflight /\ n \notin rejectedSteps

\* C21: every step whose request resolved in the run has its result in the
\* table and exactly one store_step_result message for its name carrying that
\* result, sent after the step's dispatch; and an unanswered or failed store
\* acknowledgement changes nothing of the run (the process goes on).
C21_StoreFireAndForget ==
  /\ \A n \in NamesOf(steps) :
       SettledOk(n) =>
         /\ n \in DOMAIN props
         /\ \E k \in Stores(n) : /\ Stores(n) = {k}
                                 /\ wflog[k].data = props[n]
                                 /\ \A j \in Sends(n) : j < k
  /\ wfpc # "crashed"

\* C22: every send_job of a step carries a result for each of the step's
\* declared dependencies.
C22_InputHasDependencies ==
  \A k \in AllSends :
    \A dep \in Range(DepsOf(steps, wflog[k].step)) : dep \in DOMAIN wflog[k].data

\* the graph fails validation: a cycle, or a dependency that is not a step
BadGraph(g) == g # <<>> /\ (HasCycle(g) \/ ~AllDeclared(g))

\* the errors cycleCheck can throw for the graph
DefinitionErrors(g) ==
  {RecursiveText, PushTypeErrorText} \cup
  { "Step '" \o n \o "' depends on undefined step '" \o dep \o "'" :
      n \in NamesOf(g), dep \in {Undeclared} }

C31_TableOnlyGrows ==
  [][ runs' = runs =>
        /\ mapEntries \subseteq mapEntries'
        /\ \A n \in DOMAIN props : n \in DOMAIN props' /\ props'[n] = props[n]
    ]_vars

\* a run whose table holds a fetched entry and two results stored by runStep
C31_Witness ==
  /\ mapEntries # {}
  /\ Cardinality(DOMAIN props) >= 2
  /\ wfpc = "returned"

\* C38: once the stored results are fetched, the run fails in graph validation
\* (before any dispatch) exactly when the graph has a cycle or names an
\* undeclared dependency; a step listing itself is refused as a recursive
\* dependency when all dependencies are declared; a repeated dependency does
\* not make validation fail.
C38_RejectsExactlyBadGraphs ==
  (steps # <<>> /\ wfFetch = "ok") =>
    /\ (wfpc = "failed" /\ AllSends = {} /\ wfError \in DefinitionErrors(steps))
         <=> (HasCycle(steps) \/ ~AllDeclared(steps))
    /\ (AllDeclared(steps) /\ \E n \in NamesOf(steps) : n \in Range(DepsOf(steps, n)))
         => wfError = RecursiveText
    /\ steps = Oddities => wfpc # "failed" \/ wfError \notin DefinitionErrors(steps)

\* the graph with a repeated dependency passed validation and its run returned
C38_Witness ==
  /\ steps = Oddities
  /\ wfpc = "returned"
  /\ Sends("B") # {}

\* C39: the requests in flight always belong to the frontier dispatched last;
\* a frontier is dispatched only in the step in which the last request of the
\* frontier before it settles, and then it is all that is in flight; the run
\* returns only with an empty newly computed frontier and nothing in flight.
C39_OneFrontierInFlight ==
  /\ [](inflight \subseteq Range(nextSteps))
  /\ [](wfpc = "returned" => (nextSteps = <<>> /\ inflight = {}))
  /\ [][ (runs' = runs /\ AllSends' # AllSends) =>
           /\ Cardinality(inflight) <= 1
           /\ inflight' = Range(nextSteps')
           /\ inflight' = { wflog'[k].step : k \in AllSends' \ AllSends }
       ]_vars

\* the second frontier of the diamond (B and C) is in flight after A settled
C39_Witness ==
  /\ steps = Diamond
  /\ "A" \in DOMAIN props
  /\ inflight = {"B", "C"}
  /\ nextSteps = <<"B", "C">>

\* ------------------------------------------------------------------------
\* Specifications of the client: the registry and the dispatch calls over the
\* life cycle of the connection
\* ------------------------------------------------------------------------
\* the step tables given to workflow()
ClientDefs ==
  { << FnStep("B"), ArrStep("A", <<"B">>) >>,
    << FnStep("A"), OtherStep("B") >>,
    << FnStep("A"), ArrNoFn("B", <<"A">>) >>,
    << OtherStep("A"), FnStep("B") >> }
\* the step table given to workflow() next to the dispatch calls
DispatchDefs == { << FnStep("A") >> }

InitClientSpec == InitFresh /\ InitWorker /\ InitRequest /\ NoWorkflow

NextLife ==
  \/ \E readOk \in BOOLEAN : Start(readOk)
  \/ Connect
  \/ ClientReady
  \/ Disconnect
  \/ Stop

NextClient ==
  \/ NextLife
  \/ \E name \in WorkNames, a2 \in Handlers \cup WorkOptions, a3 \in {"", "h2"} :
       Work(name, a2, a3)
  \/ \E g \in ClientDefs : DefineWorkflow(g)
  \/ \E name \in PushNames, e \in Thrown : WorkRequest(1, name, 0, "promise", e)

SpecClient == InitClientSpec /\ [][NextClient]_vars

NextDispatch ==
  \/ NextLife
  \/ \E op \in DispatchOps : Publish(op)
  \/ \E k \in 1..MaxPubs, a \in AckShapes : PublishAck(k, a)
  \/ Request(1)
  \/ \E g \in DispatchDefs : DefineWorkflow(g)

SpecDispatch == InitClientSpec /\ [][NextDispatch]_vars

\* ------------------------------------------------------------------------
\* Claims about the client
\* ------------------------------------------------------------------------
\* the connection is established (a connect event was the last life-cycle event
\* but for client_ready)
Up == conn \in {"connected", "ready"}

\* the entry of a registry under a name, <<>> when there is none
EntryOf(m, name) == SelectSeq(m, LAMBDA en : en.name = name)

\* C23: whenever the client is not started (never started, disconnected or
\* stopped), publish, schedule, request and workflow fail with the not-started
\* error, send no message and register no handler and no listener.
C23_NotStartedFails ==
  [][ ~Up =>
        /\ \A op \in DispatchOps :
             Publish(op) =>
               /\ Len(pub') = Len(pub) + 1
               /\ pub'[Len(pub')].msg = <<>>
               /\ pub'[Len(pub')].settles =
                    << Reject("PlanLlama not started. Call start() first.") >>
               /\ UNCHANGED <<registered, jobHandlers, listeners>>
        /\ \A r \in Reqs :
             Request(r) =>
               /\ rstate'[r] = "done"
               /\ settles'[r] = << Reject("PlanLlama not started. Call start() first.") >>
               /\ UNCHANGED <<registered, jobHandlers, listeners>>
        /\ \A g \in DispatchDefs :
             DefineWorkflow(g) =>
               /\ wfDef' = "PlanLlama not started. Call start() first."
               /\ UNCHANGED <<registered, jobHandlers, listeners, steps, wflog>>
    ]_vars

\* after a disconnect, a dispatch call, a request() and workflow() have all
\* failed with the not-started error
C23_Witness ==
  /\ conn = "down"
  /\ \E k \in 1..Len(pub) : /\ pub[k].msg = <<>>
                            /\ pub[k].settles = << Reject(NotStartedText) >>
  /\ \E r \in Reqs : settles[r] = << Reject(NotStartedText) >>
  /\ wfDef = NotStartedText
  /\ registered = <<>>

WorkCall(name, h, o) == IF o = "" THEN Work(name, h, "") ELSE Work(name, o, h)

RegistrationOrder ==
  LET RECURSIVE F(_, _)
      F(k, acc) == IF k > Len(registered) THEN acc
                   ELSE F(k + 1, IF registered[k].jobName \in Range(acc) THEN acc
                                 ELSE Append(acc, registered[k].jobName))
  IN F(1, <<>>)

\* the options of the last register_worker message sent for a name
LastOptions(name) ==
  LET ks == { k \in 1..Len(registered) : registered[k].jobName = name }
  IN registered[CHOOSE k \in ks : \A j \in ks : j <= k].options

C29_InvalidStepRejected ==
  [][ \A g \in ClientDefs :
        (DefineWorkflow(g) /\ Up /\ \E k \in 1..Len(g) : "shape" \in DOMAIN g[k]) =>
          LET k == CHOOSE j \in 1..Len(g) :
                     "shape" \in DOMAIN g[j] /\ \A q \in 1..(j - 1) : "shape" \notin DOMAIN g[q]
          IN /\ g[k].shape = "other" => wfDef' = "Invalid step definition"
             /\ g[k].shape = "array_no_fn" =>
                  wfDef' = "Step must be a function or an array ending with a function"
             /\ EntryOf(jobHandlers', "wf") = <<>>
             /\ UNCHANGED steps
    ]_vars

\* workflow() was refused for a second step that is an array without a
\* function, after the handler of the first step had been registered
C29_Witness ==
  /\ wfDef = StepNoFnText
  /\ steps = <<>>
  /\ EntryOf(jobHandlers, "wf/A") # <<>>
  /\ EntryOf(jobHandlers, "wf") = <<>>

\* the job names workflow() registers for the step tables of ClientDefs
WorkflowJobNames == {WfName} \cup { StepJob(n) : n \in {"A", "B"} }

\* C36: when workflow() was refused for an ill-formed step, the registry holds
\* no handler of the workflow and no register_worker message was sent for it.
C36_NoPartialRegistration ==
  wfDef \in {InvalidStepText, StepNoFnText} =>
    /\ \A k \in 1..Len(jobHandlers) : jobHandlers[k].name \notin WorkflowJobNames
    /\ \A k \in 1..Len(registered) : registered[k].jobName \notin WorkflowJobNames

\* ------------------------------------------------------------------------
\* Client: start() and stop()
\* ------------------------------------------------------------------------

\* the life cycle with the connection timeout and connection errors, and the
\* registration of handlers
NextStart ==
  \/ NextLife
  \/ StartTimeout
  \/ ConnectError
  \/ \E name \in WorkNames : Work(name, "h1", "")

\* an armed connection timeout fires
SpecStart == InitClientSpec /\ [][NextStart]_vars /\ WF_vars(StartTimeout)

\* what stop() leaves alone when it returns at once
StopKeeps == <<isStarted, socket, reconnecting, conn, wired, epoch, discs,
               jobHandlers, registered, pub, wfDef>>

C34_OneListenerWhenStarted == (isStarted /\ conn = "ready") => wired

\* C35: once stop() has returned, the client is not started again until
\* start() is called
C35_StoppedStaysStopped == lastStop # "" => ~isStarted

\* C40: every start() call eventually settles: its promise resolves or rejects
C40_StartSettles ==
  (startState = "pending") ~> (startState \in {"resolved", "rejected"})

\* ------------------------------------------------------------------------
\* Workflow: the deadline of the work item that runs the workflow
\* ------------------------------------------------------------------------

\* an outcome of the work item that runs the workflow has been reported: the
\* run driver returned (completion), its promise rejected (step failure), or
\* the deadline timer of the work item fired
OutcomeReported == wfCancelled \/ wfpc \in {"returned", "failed"}

\* C37: once an outcome of the workflow's work item has been reported, by
\* completion, by a step failure or by its deadline, the run driver of that
\* work item sends no further step
C37_NoDispatchAfterOutcome ==
  [][(OutcomeReported /\ runs' = runs) => AllSends' \subseteq AllSends]_vars

====
